---------------------------- MODULE Spec2Model ----------------------------
(***************************************************************************)
(* Model of vdbfusion_ros' VDBVolumeNode                                   *)
(* (src/include/vdbfusion_ros/VDBVolume_ros.hpp).                          *)
(*                                                                         *)
(* The node is one object with three callbacks (Integrate, saveVDBVolume,  *)
(* TimerCallback) that roscpp puts on the global callback queue and that   *)
(* main() serves with ros::spin().  The callbacks are modelled statement   *)
(* group by statement group, so that every point at which another thread   *)
(* of control could observe the Volume or the files is a state.            *)
(*                                                                         *)
(* Points are integer triples; a norm is compared through its square.      *)
(* The external engines (the TSDF volume, marching cubes, tf2, the file    *)
(* writers) are black boxes: the Volume is the sequence of batches handed  *)
(* to it, a mesh is a fixed function of that sequence, and a file write    *)
(* either succeeds or fails to open its file.                              *)
(***************************************************************************)
EXTENDS Integers, Sequences, FiniteSets, TLC

\* ------------------------------------------------------------------ bounds
\* Number of triggers (scans, service requests and timer firings together)
\* the transport delivers in a run.
MaxTriggers == 3
\* Longest point list the range filter is tried on, the scenario's apart.
MaxLen == 2

\* --------------------------------------------------------------- constants
\* ros::spin() serves the callback queue from the calling thread only (a
\* multi-threaded spinner would serve it from several).
NumSpinnerThreadsTwo == 1 + 1
NumSpinnerThreads == 1

Threads == 1..NumSpinnerThreads

\* "no value" among strings.
None == "none"

\* The configured default destination and one destination a caller supplies.
SavePath == "save_path"
Destinations == {SavePath, "request_path"}

\* The two files an export writes at destination d.
GridFile(d) == <<d, "_grid.vdb">>
MeshFile(d) == <<d, "_mesh.ply">>
FileNames == {GridFile(d) : d \in Destinations} \cup {MeshFile(d) : d \in Destinations}

\* sensor_msgs point clouds the transport may deliver (points carry x, y, z).
Clouds ==
    { << [x |-> 2, y |-> 0, z |-> 0], [x |-> 5, y |-> 0, z |-> 0],
         [x |-> 0, y |-> 0, z |-> 4] >> }

\* Poses the transform buffer may hold: a yaw of 0 or 180 degrees and a translation.
Poses ==
    { [valid |-> TRUE, yaw180 |-> TRUE, translation |-> <<4, 0, 0>>] }

\* Values save_publish_wait_time may hold after the constructor: the value the
\* launch file sets, or, when it sets none, whatever the member held.
WaitTimes == {-1, 0, 5}
\* Values of (/min_range, /max_range) a launch file may set.
RangeConfigs == { <<1, 3>> }

\* ------------------------------------------------------------ pure helpers
\* The empty cloud a default-constructed sensor_msgs::PointCloud2 is.
EmptyCloud == << >>

\* tf2::doTransform: rotate about z by 0 or 180 degrees, then translate.
doTransform(pcd, transform) ==
    [i \in 1..Len(pcd) |->
        LET p == pcd[i]
            s == IF transform.yaw180 THEN -1 ELSE 1
        IN  [x |-> s * p.x + transform.translation[1],
             y |-> s * p.y + transform.translation[2],
             z |-> p.z + transform.translation[3]]]

\* Each message point becomes an Eigen::Vector3d (x, y, z), in order.
pcl2SensorMsgToEigen(pcl2) ==
    [i \in 1..Len(pcl2) |-> <<pcl2[i].x, pcl2[i].y, pcl2[i].z>>]

NormSq(p) == p[1] * p[1] + p[2] * p[2] + p[3] * p[3]
\* p.norm() > r and p.norm() < r, for an integer r of either sign.
NormGreaterOrEqual(p, r) == r < 0 \/ NormSq(p) >= r * r
NormGreater(p, r) == r < 0 \/ NormSq(p) > r * r
NormLess(p, r) == r > 0 /\ NormSq(p) < r * r

\* The two culls of PreProcessCloud, the far one first.  std::remove_if + erase
\* keeps the elements that fail the test, in their order.
PreProcessCloud(points, min_range, max_range) ==
    LET notFar(p) == ~NormGreater(p, max_range)
        notNear(p) == ~NormLess(p, min_range)
    IN  SelectSeq(SelectSeq(points, notFar), notNear)

\* ------------------------------------------------- the external engines
\* A Volume that nothing has been integrated into.
EmptyVolume == [tsdf |-> << >>, mutating |-> 0]

\* The points of a sequence of batches, batch after batch.
RECURSIVE Flatten(_)
Flatten(batches) ==
    IF batches = << >> THEN << >>
    ELSE Head(batches).points \o Flatten(Tail(batches))

\* VDBVolume::ExtractTriangleMesh: a fixed function of the Volume's content
\* (fill_holes_ and min_weight_ are set once and never change).  One vertex per
\* integrated point, one triangle per three consecutive vertices, 0-based.
ExtractTriangleMesh(volume) ==
    LET vs == Flatten(volume.tsdf)
    IN  [vertices |-> vs,
         triangles |-> [i \in 1..(IF Len(vs) >= 3 THEN Len(vs) - 2 ELSE 0) |->
                            <<i - 1, i, i + 1>>]]

\* The loops that fill mesh_msg.mesh_geometry from the extracted mesh.
MeshGeometryYForZ(vertices, triangles) ==
    [vertices |-> [i \in 1..Len(vertices) |->
                      [x |-> vertices[i][1], y |-> vertices[i][2], z |-> vertices[i][2]]],
     faces |-> [i \in 1..Len(triangles) |->
                      [vertex_indices |->
                          <<triangles[i][1], triangles[i][2], triangles[i][3]>>]]]
MeshGeometry(vertices, triangles) ==
    [vertices |-> [i \in 1..Len(vertices) |->
                      [x |-> vertices[i][1], y |-> vertices[i][2], z |-> vertices[i][3]]],
     faces |-> [i \in 1..Len(triangles) |->
                      [vertex_indices |->
                          <<triangles[i][1], triangles[i][2], triangles[i][3]>>]]]

\* ------------------------------------------------------------------- state
VARIABLES
    volume_params_set,       \* /voxel_size, /sdf_trunc, /space_carving are set
    wait_set,                \* /save_publish_wait_time is set in the launch
    save_publish_wait_time,  \* the member after the constructor's getParam
    timerArmed,              \* serviceTimer was created
    apply_pose_, preprocess_, min_range_, max_range_,
    vdb_volume_,             \* the Volume
    queue,                   \* roscpp's callback queue: pending callbacks
    pc,                      \* per spinner thread: where it is in a callback
    run,                     \* per spinner thread: the callback and its locals
    files,                   \* the file system under the destinations
    mesh_topic,              \* messages published on "mesh", oldest first
    exports,                 \* per export trigger: what it read and returned
    log,                     \* what happened, in order
    nScans, nExports,        \* triggers delivered so far
    alive,                   \* the process has not terminated
    filter_points,           \* PreProcessCloud on its own: the points given,
    filter_result,           \*   the points left,
    filter_done              \*   and whether it has run

config == <<volume_params_set, wait_set, save_publish_wait_time, timerArmed,
            apply_pose_, preprocess_, min_range_, max_range_>>
filter == <<filter_points, filter_result, filter_done>>
node == <<vdb_volume_, queue, pc, run, files, mesh_topic, exports, log,
          nScans, nExports, alive>>
vars == <<config, node, filter>>

ExportIds == 1..MaxTriggers

NoCallback == [kind |-> None, id |-> 0, cloud |-> << >>, path |-> None]
\* A default-constructed geometry_msgs::TransformStamped, left untouched.
NoPose == [valid |-> FALSE, yaw180 |-> FALSE, translation |-> <<0, 0, 0>>]
NoBatch == [points |-> << >>, origin |-> << >>]
NoSnapshot == [tsdf |-> << >>, mutating |-> -1]
NoMessage == [vertices |-> << >>, faces |-> << >>]
NoLocals == [cb |-> NoCallback, path |-> None, batch |-> NoBatch,
             vertices |-> << >>, triangles |-> << >>, mesh_msg |-> NoMessage]
NoFile == [writers |-> {}, by |-> {}, volume |-> NoSnapshot,
           vertices |-> << >>, triangles |-> << >>]
NoExport == [kind |-> None, path |-> None, gridSnap |-> NoSnapshot,
             meshSnap |-> NoSnapshot, vertices |-> << >>, triangles |-> << >>,
             gridOk |-> None, meshOk |-> None, outcome |-> "pending"]

Event(src, id, ev) == [src |-> src, id |-> id, ev |-> ev]

\* The constructor's choice between the timer and the service only.
TimerWantedWrong(wait) == wait >= 0
TimerWanted(wait) == wait > 0

\* What the constructor and InitVDBVolume read from the parameter server.
\* No getParam result is tested: a parameter that is not set leaves its
\* variable as it was, indeterminate, and construction goes on.
Launch(volume_sets, ranges) ==
    /\ volume_params_set \in volume_sets
    /\ wait_set \in BOOLEAN
    /\ save_publish_wait_time \in WaitTimes
    /\ timerArmed = TimerWanted(save_publish_wait_time)
    /\ apply_pose_ \in BOOLEAN
    /\ preprocess_ \in BOOLEAN
    /\ \E r \in ranges : min_range_ = r[1] /\ max_range_ = r[2]

\* The members as the constructor leaves them: the Volume exists, the
\* callbacks are registered, nothing has arrived.
Constructed ==
    /\ vdb_volume_ = EmptyVolume
    /\ queue = << >>
    /\ pc = [t \in Threads |-> "idle"]
    /\ run = [t \in Threads |-> NoLocals]
    /\ files = [f \in FileNames |-> NoFile]
    /\ mesh_topic = << >>
    /\ exports = [e \in ExportIds |-> NoExport]
    /\ log = << >>
    /\ nScans = 0
    /\ nExports = 0

\* The constructor returned and main goes on to spin.
Started == Constructed /\ alive = TRUE

FilterIdle ==
    /\ filter_points = << >>
    /\ filter_result = << >>
    /\ filter_done = FALSE

\* The state after construction, for every launch that sets the Volume's
\* parameters.
Init == Launch({TRUE}, RangeConfigs) /\ Started /\ FilterIdle

\* ------------------------------------------------------------ the triggers
Callback(kind, id, cloud, path) ==
    [kind |-> kind, id |-> id, cloud |-> cloud, path |-> path]

\* The subscription holds at most queue_size scans; when one more arrives the
\* oldest of them is dropped.
queue_size == 500
IsScan(cb) == cb.kind = "scan"
IsNotOldestScan(cb) ==
    \/ ~IsScan(cb)
    \/ \E i \in 1..Len(queue) : IsScan(queue[i]) /\ queue[i].id < cb.id
MakeRoom ==
    IF Len(SelectSeq(queue, IsScan)) >= queue_size
    THEN SelectSeq(queue, IsNotOldestScan)
    ELSE queue

\* The transport delivers a scan: its callback waits on the callback queue.
ScanArrives ==
    /\ alive
    /\ nScans + nExports < MaxTriggers
    /\ \E c \in Clouds :
          queue' = Append(MakeRoom, Callback("scan", nScans + 1, c, None))
    /\ nScans' = nScans + 1
    /\ UNCHANGED <<config, filter, vdb_volume_, pc, run, files, mesh_topic, exports, log,
                   nExports, alive>>

\* A caller invokes /save_vdb_volume with a destination.
ServiceRequest ==
    /\ alive
    /\ nScans + nExports < MaxTriggers
    /\ \E d \in Destinations :
          /\ queue' = Append(queue, Callback("srv", nExports + 1, << >>, d))
          /\ exports' = [exports EXCEPT ![nExports + 1] =
                            [NoExport EXCEPT !.kind = "srv", !.path = d]]
    /\ nExports' = nExports + 1
    /\ UNCHANGED <<config, filter, vdb_volume_, pc, run, files, mesh_topic, log, nScans,
                   alive>>

\* serviceTimer expires; there is a timer only if the constructor made one.
TimerFires ==
    /\ alive
    /\ timerArmed
    /\ nScans + nExports < MaxTriggers
    /\ queue' = Append(queue, Callback("timer", nExports + 1, << >>, None))
    /\ exports' = [exports EXCEPT ![nExports + 1] =
                      [NoExport EXCEPT !.kind = "timer"]]
    /\ nExports' = nExports + 1
    /\ UNCHANGED <<config, filter, vdb_volume_, pc, run, files, mesh_topic, log, nScans,
                   alive>>

\* ros::spin(): an idle spinner thread takes the oldest pending callback and
\* calls its handler; the handler's locals start fresh.
CanTake(t, kind) ==
    /\ alive
    /\ pc[t] = "idle"
    /\ queue # << >>
    /\ Head(queue).kind = kind
Taken == [NoLocals EXCEPT !.cb = Head(queue), !.path = Head(queue).path]

\* The service callback: saveVDBVolume is entered with the caller's request.
ServiceCall(t) ==
    /\ CanTake(t, "srv")
    /\ run' = [run EXCEPT ![t] = Taken]
    /\ pc' = [pc EXCEPT ![t] = "saveVDBVolume"]
    /\ queue' = Tail(queue)
    /\ UNCHANGED <<config, filter, vdb_volume_, files, mesh_topic, exports, log, nScans,
                   nExports, alive>>

\* --------------------------------------------------------------- Integrate
\* What tf_.lookUpTransform may answer for a stamp: a pose within the
\* tolerance, or none.
LookupResults == Poses \cup {NoPose}

\* The test that lets a scan through to the Volume.
TransformAvailableAlways(transform) == TRUE
TransformAvailable(transform) == transform.valid

\* The same steps with the range filter ahead of the pose.
IntegrateBatchFilterFirst(pcd, transform) ==
    LET raw == pcl2SensorMsgToEigen(pcd)
        kept == IF preprocess_
                THEN PreProcessCloud(raw, min_range_, max_range_)
                ELSE raw
        cloud == [i \in 1..Len(kept) |->
                     [x |-> kept[i][1], y |-> kept[i][2], z |-> kept[i][3]]]
        pcd_out == IF apply_pose_ THEN doTransform(cloud, transform) ELSE EmptyCloud
    IN  [points |-> pcl2SensorMsgToEigen(pcd_out), origin |-> transform.translation]

\* The points and the origin Integrate hands to vdb_volume_.Integrate.
IntegrateBatch(pcd, transform) ==
    LET pcd_out == IF apply_pose_ THEN doTransform(pcd, transform) ELSE EmptyCloud
        scan == pcl2SensorMsgToEigen(pcd_out)
        filtered == IF preprocess_
                    THEN PreProcessCloud(scan, min_range_, max_range_)
                    ELSE scan
    IN  [points |-> filtered, origin |-> transform.translation]

\* The subscriber callback up to its call into the Volume: look the pose up;
\* without one, return; with one, build the batch and enter
\* vdb_volume_.Integrate.
Integrate(t) ==
    /\ CanTake(t, "scan")
    /\ queue' = Tail(queue)
    /\ \E transform \in LookupResults :
          LET pcd == Head(queue)
              looked == Event("scan", pcd.id,
                              IF transform.valid THEN "lookup_pose" ELSE "lookup_none")
          IN  IF TransformAvailable(transform)
              THEN /\ run' = [run EXCEPT ![t] =
                                 [Taken EXCEPT !.batch =
                                     IntegrateBatch(pcd.cloud, transform)]]
                   /\ vdb_volume_' = [vdb_volume_ EXCEPT !.mutating = @ + 1]
                   /\ pc' = [pc EXCEPT ![t] = "integrating"]
                   /\ log' = log \o <<looked, Event("scan", pcd.id, "integrate_begin")>>
              ELSE /\ log' = Append(log, looked)
                   /\ UNCHANGED <<vdb_volume_, run, pc>>
    /\ UNCHANGED <<config, filter, files, mesh_topic, exports, nScans, nExports, alive>>

\* vdb_volume_.Integrate returns: the batch is part of the Volume.
IntegrateDone(t) ==
    /\ alive
    /\ pc[t] = "integrating"
    /\ vdb_volume_' = [tsdf |-> Append(vdb_volume_.tsdf, run[t].batch),
                       mutating |-> vdb_volume_.mutating - 1]
    /\ log' = Append(log, Event("scan", run[t].cb.id, "integrate_end"))
    /\ run' = [run EXCEPT ![t] = NoLocals]
    /\ pc' = [pc EXCEPT ![t] = "idle"]
    /\ UNCHANGED <<config, filter, queue, files, mesh_topic, exports, nScans, nExports,
                   alive>>

\* ---------------------------------------------------------- TimerCallback
\* The destination TimerCallback puts in its request: save_path_.
TimerDestinationOther == "request_path"
TimerDestination == SavePath

\* Build the request with the default destination and call saveVDBVolume.
TimerCallback(t) ==
    /\ CanTake(t, "timer")
    /\ queue' = Tail(queue)
    /\ run' = [run EXCEPT ![t] = [Taken EXCEPT !.path = TimerDestination]]
    /\ exports' = [exports EXCEPT ![Head(queue).id].path = TimerDestination]
    /\ log' = Append(log, Event("export", Head(queue).id, "info_auto_invoking"))
    /\ pc' = [pc EXCEPT ![t] = "saveVDBVolume"]
    /\ UNCHANGED <<config, filter, vdb_volume_, files, mesh_topic, nScans, nExports, alive>>

\* ---------------------------------------------------------- saveVDBVolume
\* A writer opens a file (truncating it unless another writer has it open)
\* and, later, closes it.
OpenForWrite(file, e, volume, vertices, triangles) ==
    [writers |-> file.writers \cup {e},
     by |-> IF file.writers = {} THEN {e} ELSE file.by \cup {e},
     volume |-> volume, vertices |-> vertices, triangles |-> triangles]
CloseFile(file, e) == [file EXCEPT !.writers = @ \ {e}]

\* An exception leaves saveVDBVolume: nothing in the node catches it.  Under
\* a service call roscpp catches it and answers the caller with a failure;
\* under a timer callback it leaves ros::spin() and main(): the process ends.
SurvivesException(kind) == kind = "srv"

\* Line 212-214: log, then write the grid file.  The write throws when the
\* file cannot be opened.
SaveGridOpen(t) ==
    /\ alive
    /\ pc[t] = "saveVDBVolume"
    /\ LET e == run[t].cb.id
           f == GridFile(run[t].path)
       IN  \E ok \in BOOLEAN :
              IF ok
              THEN /\ files' = [files EXCEPT ![f] =
                                   OpenForWrite(@, e, vdb_volume_, << >>, << >>)]
                   /\ exports' = [exports EXCEPT ![e].gridSnap = vdb_volume_,
                                                 ![e].gridOk = "ok"]
                   /\ log' = log \o <<Event("export", e, "info_saving"),
                                      Event("export", e, "grid_open")>>
                   /\ pc' = [pc EXCEPT ![t] = "grid_writing"]
                   /\ UNCHANGED <<run, alive>>
              ELSE /\ exports' = [exports EXCEPT ![e].gridOk = "failed",
                                                 ![e].outcome = "threw"]
                   /\ log' = log \o <<Event("export", e, "info_saving"),
                                      Event("export", e, "exception")>>
                   /\ pc' = [pc EXCEPT ![t] = "idle"]
                   /\ run' = [run EXCEPT ![t] = NoLocals]
                   /\ alive' = SurvivesException(run[t].cb.kind)
                   /\ UNCHANGED files
    /\ UNCHANGED <<config, filter, vdb_volume_, queue, mesh_topic, nScans, nExports>>

\* The grid file is written and closed.
SaveGridClose(t) ==
    /\ alive
    /\ pc[t] = "grid_writing"
    /\ LET e == run[t].cb.id
           f == GridFile(run[t].path)
       IN  /\ files' = [files EXCEPT ![f] = CloseFile(@, e)]
           /\ log' = Append(log, Event("export", e, "grid_done"))
    /\ pc' = [pc EXCEPT ![t] = "extract"]
    /\ UNCHANGED <<config, filter, vdb_volume_, queue, run, mesh_topic, exports, nScans,
                   nExports, alive>>

\* Lines 217-244: marching cubes, then the loops that fill V, F and mesh_msg.
SaveExtract(t) ==
    /\ alive
    /\ pc[t] = "extract"
    /\ LET e == run[t].cb.id
           mesh == ExtractTriangleMesh(vdb_volume_)
       IN  /\ run' = [run EXCEPT ![t].vertices = mesh.vertices,
                                 ![t].triangles = mesh.triangles,
                                 ![t].mesh_msg =
                                     MeshGeometry(mesh.vertices, mesh.triangles)]
           /\ exports' = [exports EXCEPT ![e].meshSnap = vdb_volume_,
                                         ![e].vertices = mesh.vertices,
                                         ![e].triangles = mesh.triangles]
           /\ log' = Append(log, Event("export", e, "extract"))
    /\ pc' = [pc EXCEPT ![t] = "mesh_write"]
    /\ UNCHANGED <<config, filter, vdb_volume_, queue, files, mesh_topic, nScans, nExports,
                   alive>>

\* Line 245-246: igl::write_triangle_mesh answers false when it cannot open
\* the file; the answer is dropped and "Done saving" is logged either way.
SaveMeshOpen(t) ==
    /\ alive
    /\ pc[t] = "mesh_write"
    /\ LET e == run[t].cb.id
           f == MeshFile(run[t].path)
       IN  \E ok \in BOOLEAN :
              IF ok
              THEN /\ files' = [files EXCEPT ![f] =
                                   OpenForWrite(@, e, NoSnapshot, run[t].vertices,
                                                run[t].triangles)]
                   /\ exports' = [exports EXCEPT ![e].meshOk = "ok"]
                   /\ log' = Append(log, Event("export", e, "mesh_open"))
                   /\ pc' = [pc EXCEPT ![t] = "mesh_writing"]
              ELSE /\ exports' = [exports EXCEPT ![e].meshOk = "failed"]
                   /\ log' = log \o <<Event("export", e, "mesh_failed"),
                                      Event("export", e, "info_done_saving")>>
                   /\ pc' = [pc EXCEPT ![t] = "publish"]
                   /\ UNCHANGED files
    /\ UNCHANGED <<config, filter, vdb_volume_, queue, run, mesh_topic, nScans, nExports,
                   alive>>

\* The mesh file is written and closed; "Done saving" is logged.
SaveMeshClose(t) ==
    /\ alive
    /\ pc[t] = "mesh_writing"
    /\ LET e == run[t].cb.id
           f == MeshFile(run[t].path)
       IN  /\ files' = [files EXCEPT ![f] = CloseFile(@, e)]
           /\ log' = log \o <<Event("export", e, "mesh_done"),
                              Event("export", e, "info_done_saving")>>
    /\ pc' = [pc EXCEPT ![t] = "publish"]
    /\ UNCHANGED <<config, filter, vdb_volume_, queue, run, mesh_topic, exports, nScans,
                   nExports, alive>>

\* "chicken out if there are no vertices"
ShouldPublishAlways(vertices) == TRUE
ShouldPublishOnce(vertices) == Len(vertices) > 0 /\ mesh_topic = << >>
ShouldPublish(vertices) == Len(vertices) > 0

\* Lines 248-257: publish a mesh that has vertices, then return true.
SavePublish(t) ==
    /\ alive
    /\ pc[t] = "publish"
    /\ LET e == run[t].cb.id
       IN  /\ IF ShouldPublish(run[t].vertices)
              THEN /\ mesh_topic' = Append(mesh_topic,
                                        [export |-> e, msg |-> run[t].mesh_msg])
                   /\ log' = log \o <<Event("export", e, "publish"),
                                      Event("export", e, "return_true")>>
              ELSE /\ log' = Append(log, Event("export", e, "return_true"))
                   /\ UNCHANGED mesh_topic
           /\ exports' = [exports EXCEPT ![e].outcome = "returned_true"]
    /\ run' = [run EXCEPT ![t] = NoLocals]
    /\ pc' = [pc EXCEPT ![t] = "idle"]
    /\ UNCHANGED <<config, filter, vdb_volume_, queue, files, nScans, nExports, alive>>

\* --------------------------------------------------------- specification
Next ==
    \/ ScanArrives
    \/ ServiceRequest
    \/ TimerFires
    \/ \E t \in Threads : ServiceCall(t)
    \/ \E t \in Threads : Integrate(t)
    \/ \E t \in Threads : IntegrateDone(t)
    \/ \E t \in Threads : TimerCallback(t)
    \/ \E t \in Threads : SaveGridOpen(t)
    \/ \E t \in Threads : SaveGridClose(t)
    \/ \E t \in Threads : SaveExtract(t)
    \/ \E t \in Threads : SaveMeshOpen(t)
    \/ \E t \in Threads : SaveMeshClose(t)
    \/ \E t \in Threads : SavePublish(t)

Spec == Init /\ [][Next]_vars

\* Launches that may leave /voxel_size, /sdf_trunc and /space_carving
\* unset. InitVDBVolume does not test what getParam returns: the Volume is
\* then built from three uninitialised locals, whose values are
\* indeterminate. The build either gets through the constructor with them,
\* and the node runs like any other, or the Volume's constructor rejects
\* the values it happens to get and the process ends there.
InitStartup ==
    /\ Launch(BOOLEAN, RangeConfigs)
    /\ Constructed
    /\ FilterIdle
    /\ alive \in IF volume_params_set THEN {TRUE} ELSE BOOLEAN

SpecStartup == InitStartup /\ [][Next]_vars

\* ------------------------------------------------------- the range filter
\* PreProcessCloud on its own: point lists and ranges in tenths of a unit.
\* The points have whole norms: 5, 10, 20, 99, 100 and 150.
FilterPoints ==
    { <<5, 0, 0>>, <<6, 8, 0>>, <<20, 0, 0>>, <<0, 99, 0>>, <<0, 0, 100>>,
      <<150, 0, 0>> }
\* Norms 0.5, 2.0, 9.9 and 15.0, to be filtered with bounds 1.0 and 10.0.
ScenarioPoints == << <<5, 0, 0>>, <<20, 0, 0>>, <<0, 99, 0>>, <<150, 0, 0>> >>
FilterInputs ==
    UNION {[1..n -> FilterPoints] : n \in 0..MaxLen} \cup {ScenarioPoints}
FilterBounds == {-10, 0, 10, 20, 100}
FilterRanges == FilterBounds \X FilterBounds

InitFilter ==
    /\ Launch({TRUE}, FilterRanges)
    /\ wait_set /\ save_publish_wait_time = 0
    /\ apply_pose_ /\ preprocess_
    /\ Started
    /\ filter_points \in FilterInputs
    /\ filter_result = << >>
    /\ filter_done = FALSE

\* Call PreProcessCloud(points, min_range_, max_range_).
ApplyFilter ==
    /\ ~filter_done
    /\ filter_result' = PreProcessCloud(filter_points, min_range_, max_range_)
    /\ filter_done' = TRUE
    /\ UNCHANGED <<config, node, filter_points>>

NextFilter == ApplyFilter

SpecFilter == InitFilter /\ [][NextFilter]_vars

\* ------------------------------------------------------ reading the log
IsExportKind(kind) == kind \in {"srv", "timer"}
\* Thread t is executing export e.
Executing(t, e) == IsExportKind(run[t].cb.kind) /\ run[t].cb.id = e
Happened(e, ev) == \E i \in 1..Len(log) : log[i] = Event("export", e, ev)
Precedes(e, a, b) ==
    \E i, j \in 1..Len(log) :
        i < j /\ log[i] = Event("export", e, a) /\ log[j] = Event("export", e, b)
IsExportEvent(ev) == ev.src = "export"
ExportLog == SelectSeq(log, IsExportEvent)
MsgsOf(e) == {i \in 1..Len(mesh_topic) : mesh_topic[i].export = e}
WriteFailed(x) == x.gridOk = "failed" \/ x.meshOk = "failed"

\* ------------------------------------------------------------------ claims
InIntegration(t) == pc[t] = "integrating"
InExportSection(t) == pc[t] \in {"grid_writing", "extract"}

\* C1: at no time is a thread inside vdb_volume_.Integrate while another is
\* inside it or inside an export's grid write and mesh extraction; the Volume
\* is being mutated by at most one integration, and by none while an export
\* is between its grid write and its extraction.
C1_MutualExclusion ==
    /\ Cardinality({t \in Threads : InIntegration(t) \/ InExportSection(t)}) <= 1
    /\ vdb_volume_.mutating <= 1
    /\ (\E t \in Threads : InExportSection(t)) => vdb_volume_.mutating = 0

\* An integration is executing while a service request and a timer firing wait.
C1_Witness ==
    /\ \E t \in Threads : InIntegration(t)
    /\ \E i, j \in 1..Len(queue) : queue[i].kind = "srv" /\ queue[j].kind = "timer"

\* C2: a step in which the lookup reports no pose leaves the Volume as it
\* was, raises nothing, starts no integration, and leaves the process alive
\* with every idle thread still idle.
C2_NoPoseLeavesVolume ==
    [][(Len(log') > Len(log) /\ log'[Len(log) + 1].ev = "lookup_none")
         => /\ vdb_volume_' = vdb_volume_
            /\ alive'
            /\ \A t \in Threads : pc[t] = "idle" => pc'[t] = "idle"
            /\ \A i \in (Len(log) + 1)..Len(log') :
                   log'[i].ev \notin {"integrate_begin", "exception"}]_vars

\* A scan was dropped after another had put points into the Volume, and the
\* node is idle and alive.
C2_Witness ==
    /\ alive
    /\ \A t \in Threads : pc[t] = "idle"
    /\ Len(vdb_volume_.tsdf) = 1
    /\ vdb_volume_.tsdf[1].points # << >>
    /\ \E i, j \in 1..Len(log) :
          i < j /\ log[i].ev = "integrate_end" /\ log[j].ev = "lookup_none"

\* C3: the steps of two exports never interleave: in the log, the step after
\* an export's step belongs to the same export unless that export has ended;
\* no file holds bytes of two exports, and a file is open for writing only
\* while the one export writing it is at that write.
C3_ExportsDoNotInterleave ==
    /\ \A i \in 1..(Len(ExportLog) - 1) :
          ExportLog[i].id # ExportLog[i + 1].id
              => ExportLog[i].ev \in {"return_true", "exception"}
    /\ \A f \in FileNames :
          /\ Cardinality(files[f].by) <= 1
          /\ files[f].writers # {} =>
                \E t \in Threads :
                    /\ pc[t] \in {"grid_writing", "mesh_writing"}
                    /\ files[f].writers = {run[t].cb.id}

\* A service export to the default destination has written its grid file and
\* is in the middle of its mesh file while a timer export to the same
\* destination waits.
C3_Witness ==
    \E t \in Threads :
        /\ pc[t] = "mesh_writing"
        /\ run[t].cb.kind = "srv"
        /\ run[t].path = SavePath
        /\ files[GridFile(SavePath)].by = {run[t].cb.id}
        /\ files[GridFile(SavePath)].writers = {}
        /\ files[MeshFile(SavePath)].writers = {run[t].cb.id}
        /\ \E i \in 1..Len(queue) : queue[i].kind = "timer"

\* C4: the Volume an export serializes is not mid-mutation, the Volume it
\* extracts the mesh from is the same, the mesh is the mesh of the serialized
\* Volume, and the Volume does not change while the export is between the
\* two.
C4_ExportSeesOneCompleteVolume ==
    \A e \in ExportIds :
        /\ exports[e].gridSnap # NoSnapshot => exports[e].gridSnap.mutating = 0
        /\ exports[e].meshSnap # NoSnapshot =>
              /\ exports[e].meshSnap = exports[e].gridSnap
              /\ exports[e].vertices =
                     ExtractTriangleMesh(exports[e].gridSnap).vertices
              /\ exports[e].triangles =
                     ExtractTriangleMesh(exports[e].gridSnap).triangles
        /\ (\E t \in Threads : Executing(t, e) /\ InExportSection(t))
              => vdb_volume_ = exports[e].gridSnap

\* An export has extracted a mesh with vertices from a Volume holding a
\* completed integration, while a further scan waits.
C4_Witness ==
    \E t \in Threads, e \in ExportIds :
        /\ Executing(t, e)
        /\ pc[t] = "mesh_write"
        /\ Len(exports[e].meshSnap.tsdf) >= 1
        /\ exports[e].vertices # << >>
        /\ \E i \in 1..Len(queue) : queue[i].kind = "scan"

\* C5 (as claimed): an export in which a file write failed does not return
\* success.
C5_WriteFailureNotSuccess ==
    \A e \in ExportIds :
        WriteFailed(exports[e]) => exports[e].outcome # "returned_true"

\* C6 (as claimed): a step of an export in which a file write failed leaves
\* the Volume as it was and the process running.  Stated for the launches
\* that set the interval, so that a refutation does not rest on an unset one.
C6_FailedExportKeepsRunning ==
    [][\A e \in ExportIds :
          (wait_set /\ exports'[e] # exports[e] /\ WriteFailed(exports'[e]))
              => (vdb_volume_' = vdb_volume_ /\ alive')]_vars

\* C7: an export has exactly one message on the topic if it returned with a
\* mesh of at least one vertex and none otherwise, and the message holds the
\* extracted vertices and index triples, each in its place.
C7_PublishesExtractedMesh ==
    \A e \in ExportIds :
        /\ Cardinality(MsgsOf(e)) =
              IF exports[e].outcome = "returned_true" /\ Len(exports[e].vertices) > 0
              THEN 1 ELSE 0
        /\ \A i \in MsgsOf(e) :
              LET m == mesh_topic[i].msg
                  vs == exports[e].vertices
                  ts == exports[e].triangles
              IN  /\ Len(m.vertices) = Len(vs)
                  /\ Len(m.faces) = Len(ts)
                  /\ \A k \in 1..Len(vs) :
                        /\ m.vertices[k].x = vs[k][1]
                        /\ m.vertices[k].y = vs[k][2]
                        /\ m.vertices[k].z = vs[k][3]
                  /\ \A k \in 1..Len(ts) : m.faces[k].vertex_indices = ts[k]

\* One export returned with an empty mesh and published nothing; another
\* published a mesh with a triangle.
C7_Witness ==
    /\ \E e \in ExportIds :
          /\ exports[e].outcome = "returned_true"
          /\ exports[e].vertices = << >>
          /\ MsgsOf(e) = {}
    /\ \E i \in 1..Len(mesh_topic) : Len(mesh_topic[i].msg.faces) >= 1

\* C8 (as claimed): an export that returned success wrote the grid file,
\* then extracted, then wrote the mesh file, and published only after that;
\* both files were written.
C8_SuccessfulExportOrder ==
    \A e \in ExportIds :
        exports[e].outcome = "returned_true" =>
            /\ exports[e].gridOk = "ok"
            /\ exports[e].meshOk = "ok"
            /\ Precedes(e, "grid_open", "grid_done")
            /\ Precedes(e, "grid_done", "extract")
            /\ Precedes(e, "extract", "mesh_open")
            /\ Precedes(e, "mesh_open", "mesh_done")
            /\ Happened(e, "publish") => Precedes(e, "mesh_done", "publish")

C10_TimerIffPositiveInterval ==
    /\ timerArmed <=> (wait_set /\ save_publish_wait_time > 0)
    /\ ~(wait_set /\ save_publish_wait_time > 0) =>
          \A e \in ExportIds : exports[e].kind # "timer"

\* Number of entries of the log that record event ev of an export.
Count(ev) ==
    Cardinality({i \in 1..Len(log) : log[i].src = "export" /\ log[i].ev = ev})
CountOf(e, ev) == Cardinality({i \in 1..Len(log) : log[i] = Event("export", e, ev)})
\* Files written so far, over all exports.
FileWrites == Count("grid_done") + Count("mesh_done")
Quiescent == queue = << >> /\ \A t \in Threads : pc[t] = "idle"

\* C11, the state part: a timer firing exists only with the timer armed; its
\* callback, once taken, enters saveVDBVolume exactly once, with save_path_
\* as destination; and when only timer firings were delivered and all are
\* served, there are as many exports as firings.
C11_EachFiringOneExport ==
    /\ \A e \in ExportIds :
          exports[e].kind = "timer" =>
              /\ timerArmed
              /\ CountOf(e, "info_auto_invoking") <= 1
              /\ CountOf(e, "info_saving") <= 1
              /\ Happened(e, "info_saving") => Happened(e, "info_auto_invoking")
              /\ Happened(e, "info_auto_invoking") =>
                    /\ exports[e].path = SavePath
                    /\ \/ Happened(e, "info_saving")
                       \/ \E t \in Threads : Executing(t, e) /\ pc[t] = "saveVDBVolume"
              /\ Happened(e, "grid_open") =>
                    files[GridFile(SavePath)].by # {}
    /\ (Quiescent /\ \A e \in ExportIds : exports[e].kind # "srv")
          => Count("info_saving") = nExports

\* C11: the state part always holds, and the number of files written never
\* goes down.
C11_TimerExports ==
    /\ []C11_EachFiringOneExport
    /\ [][FileWrites' >= FileWrites]_vars

\* Three timer firings and nothing else: three exports to save_path_, all
\* returned, six files written in all.
C11_Witness ==
    /\ Quiescent
    /\ nScans = 0
    /\ nExports = 3
    /\ \A e \in 1..3 :
          /\ exports[e].kind = "timer"
          /\ exports[e].outcome = "returned_true"
          /\ exports[e].meshOk = "ok"
    /\ FileWrites = 6

\* The part of the log written by the subscriber callback.
IsScanEvent(x) == x.src = "scan"
ScanLog == SelectSeq(log, IsScanEvent)
CountScan(ev) == Cardinality({i \in 1..Len(ScanLog) : ScanLog[i].ev = ev})

\* C12: scans are processed in arrival order (their ids), one at a time: the
\* events of scan callbacks appear in the log in arrival order, a call into
\* the Volume is followed by its own return before any other scan event,
\* and every call adds one batch, that of one scan, to the Volume.
C12_ScansInArrivalOrder ==
    /\ \A i, j \in 1..Len(ScanLog) : i < j => ScanLog[i].id <= ScanLog[j].id
    /\ \A i \in 1..Len(ScanLog) :
          /\ ScanLog[i].ev = "integrate_begin" /\ i < Len(ScanLog) =>
                ScanLog[i + 1] = Event("scan", ScanLog[i].id, "integrate_end")
          /\ ScanLog[i].ev = "integrate_end" =>
                i > 1 /\ ScanLog[i - 1] = Event("scan", ScanLog[i].id, "integrate_begin")
          /\ \A j \in 1..Len(ScanLog) : ScanLog[i] = ScanLog[j] => i = j
    /\ Len(vdb_volume_.tsdf) = CountScan("integrate_end")
    /\ vdb_volume_.mutating = CountScan("integrate_begin") - CountScan("integrate_end")

\* Three scans arrived; the first and the third were integrated, in that
\* order, the second had no transform.
C12_Witness ==
    /\ ScanLog = << Event("scan", 1, "lookup_pose"), Event("scan", 1, "integrate_begin"),
                    Event("scan", 1, "integrate_end"), Event("scan", 2, "lookup_none"),
                    Event("scan", 3, "lookup_pose"), Event("scan", 3, "integrate_begin"),
                    Event("scan", 3, "integrate_end") >>
    /\ Len(vdb_volume_.tsdf) = 2

\* s is an initial part of t.
IsPrefix(s, t) == Len(s) <= Len(t) /\ \A i \in 1..Len(s) : s[i] = t[i]
\* The lookup of scan id gave a pose.
HadPose(id) == \E i \in 1..Len(log) : log[i] = Event("scan", id, "lookup_pose")
\* The entries a step adds to the log.
Logged == SubSeq(log', Len(log) + 1, Len(log'))

\* C13: a step changes the Volume only as the call into the Volume of a scan
\* whose lookup gave a pose, or as the return of that call; what the Volume
\* holds is kept and only added to. Steps of an export, failed or not, and
\* every other step leave the Volume as it is.
C13_OnlyIntegrationChangesVolume ==
    [][/\ vdb_volume_' # vdb_volume_ =>
             /\ IsPrefix(vdb_volume_.tsdf, vdb_volume_'.tsdf)
             /\ \E id \in 1..MaxTriggers :
                   \/ Logged = << Event("scan", id, "lookup_pose"),
                                  Event("scan", id, "integrate_begin") >>
                   \/ /\ Logged = << Event("scan", id, "integrate_end") >>
                      /\ HadPose(id)
       /\ (\E i \in 1..Len(Logged) : Logged[i].src = "export") =>
             vdb_volume_' = vdb_volume_]_vars

\* The Volume holds a scan; one export has returned and a later one has
\* failed on its mesh file, and the Volume still holds just that scan.
C13_Witness ==
    /\ Len(vdb_volume_.tsdf) = 1
    /\ vdb_volume_.mutating = 0
    /\ \E e1, e2 \in ExportIds :
          /\ exports[e1].outcome = "returned_true" /\ exports[e1].meshOk = "ok"
          /\ exports[e1].meshSnap = vdb_volume_
          /\ WriteFailed(exports[e2])
          /\ exports[e2].gridSnap = vdb_volume_

\* Where event ev of export e stands in the log (0: not there).
PosOf(e, ev) ==
    IF Happened(e, ev)
    THEN CHOOSE i \in 1..Len(log) : log[i] = Event("export", e, ev)
    ELSE 0
\* A scan entered or left vdb_volume_.Integrate between log positions a, b.
IntegratedBetween(a, b) ==
    \E i \in a..b : log[i].src = "scan" /\
                    log[i].ev \in {"integrate_begin", "integrate_end"}
\* Export e2 ran after export e1 with no integration from the start of e1 to
\* the extraction of e2, and both extracted a mesh.
BackToBack(e1, e2) ==
    /\ Happened(e1, "extract") /\ Happened(e2, "extract")
    /\ PosOf(e1, "extract") < PosOf(e2, "extract")
    /\ ~IntegratedBetween(PosOf(e1, "info_saving"), PosOf(e2, "extract"))

\* C14: two exports with no integration between them extract the same vertex
\* list and the same triangle list, and once both have returned, either both
\* published, the same message, or neither did.
C14_RepeatedExportSameMesh ==
    \A e1, e2 \in ExportIds :
        BackToBack(e1, e2) =>
            /\ exports[e1].vertices = exports[e2].vertices
            /\ exports[e1].triangles = exports[e2].triangles
            /\ (exports[e1].outcome = "returned_true" /\
                exports[e2].outcome = "returned_true") =>
                  /\ (MsgsOf(e1) = {}) <=> (MsgsOf(e2) = {})
                  /\ \A i \in MsgsOf(e1), j \in MsgsOf(e2) :
                        mesh_topic[i].msg = mesh_topic[j].msg

\* A scan was integrated, then two exports ran one after the other: both
\* extracted the same mesh with vertices, and both published it.
C14_Witness ==
    /\ Len(vdb_volume_.tsdf) = 1
    /\ BackToBack(1, 2)
    /\ exports[1].vertices # << >>
    /\ exports[1].vertices = exports[2].vertices
    /\ exports[1].outcome = "returned_true" /\ exports[2].outcome = "returned_true"
    /\ MsgsOf(1) # {} /\ MsgsOf(2) # {}

\* No lookup has given a pose so far.
NoTransformEver == \A i \in 1..Len(log) : log[i].ev # "lookup_pose"

\* C15: as long as no lookup has given a pose, however many scans were
\* processed, the Volume is the empty one it was built as, and every export
\* extracts a mesh without vertices and publishes nothing.
C15_NoTransformNoMap ==
    NoTransformEver =>
        /\ vdb_volume_ = EmptyVolume
        /\ \A e \in ExportIds :
              /\ exports[e].vertices = << >>
              /\ exports[e].triangles = << >>
              /\ MsgsOf(e) = {}
              /\ ~Happened(e, "publish")

\* Two scans without a transform were processed, then an export ran to
\* its end: empty Volume, empty mesh, nothing published.
C15_Witness ==
    /\ NoTransformEver
    /\ CountScan("lookup_none") = 2
    /\ vdb_volume_ = EmptyVolume
    /\ \E e \in ExportIds :
          /\ exports[e].kind = "srv" /\ PosOf(e, "info_saving") = 3
          /\ Precedes(e, "extract", "return_true")
          /\ exports[e].meshSnap = EmptyVolume
          /\ exports[e].vertices = << >>
    /\ mesh_topic = << >>
    /\ log[1].src = "scan" /\ log[2].src = "scan"

\* What the claim expects vdb_volume_.Integrate to get with apply_pose_ off:
\* the points of the incoming scan, range filtered if preprocess_ is on.
SensorFramePoints(pcd) ==
    IF preprocess_
    THEN PreProcessCloud(pcl2SensorMsgToEigen(pcd), min_range_, max_range_)
    ELSE pcl2SensorMsgToEigen(pcd)

\* C16, as the claim states it: with apply_pose_ off, a scan with a transform
\* reaches the Volume with its own points, range filtered at most. The
\* code converts pcd_out, which is empty unless the pose was applied, so
\* the Volume gets no points at all: the predicate does not hold.
C16_SensorFramePointsReachVolume ==
    \A t \in Threads :
        (pc[t] = "integrating" /\ ~apply_pose_) =>
            run[t].batch.points = SensorFramePoints(run[t].cb.cloud)

\* C17, as the claim states it: a launch without the Volume's parameters
\* ends at startup, so the node never takes a scan or an export request.
\* The constructor never tests a getParam result and goes on to subscribe
\* and advertise: the predicate does not hold.
C17_MissingConfigIsFatal ==
    ~volume_params_set =>
        /\ ~alive
        /\ nScans = 0 /\ nExports = 0
        /\ log = << >>

\* The Euclidean norm of a point of FilterPoints, a whole number no larger
\* than the sum of the point's coordinates.
Norm(p) == CHOOSE n \in 0..(p[1] + p[2] + p[3]) : n * n = NormSq(p)
\* The points the claim says are kept.
WithinRange(p) == ~(Norm(p) > max_range_) /\ ~(Norm(p) < min_range_)

\* C18: PreProcessCloud returns exactly the points whose norm is neither
\* above max_range nor below min_range, points on a bound included, in
\* their order; with min_range above max_range it returns nothing; and of
\* norms 0.5, 2.0, 9.9, 15.0 with bounds 1.0 and 10.0 it returns those of
\* norm 2.0 and 9.9.
C18_RangeFilterKeepsWithinBounds ==
    filter_done =>
        /\ filter_result = SelectSeq(filter_points, WithinRange)
        /\ min_range_ > max_range_ => filter_result = << >>
        /\ (filter_points = ScenarioPoints /\ min_range_ = 10 /\ max_range_ = 100)
              => filter_result = << <<20, 0, 0>>, <<0, 99, 0>> >>

\* The scenario was run and the two middle points came back.
C18_Witness ==
    /\ filter_done
    /\ min_range_ = 10 /\ max_range_ = 100
    /\ filter_points = ScenarioPoints
    /\ filter_result = << <<20, 0, 0>>, <<0, 99, 0>> >>

\* The points of a scan in world frame: pose applied, then converted.
AlignedPoints(pcd, transform) == pcl2SensorMsgToEigen(doTransform(pcd, transform))
\* The points of a list whose squared norm lies within the squared bounds
\* (min_range_ and max_range_ are positive in the launches of Spec).
InRangeSq(p) ==
    /\ NormSq(p) <= max_range_ * max_range_
    /\ NormSq(p) >= min_range_ * min_range_
\* What a batch must be for a scan and the pose looked up for it.
BatchInOrder(batch, pcd, transform) ==
    /\ batch.origin = transform.translation
    /\ apply_pose_ /\ preprocess_ =>
          batch.points = SelectSeq(AlignedPoints(pcd, transform), InRangeSq)
    /\ apply_pose_ /\ ~preprocess_ => batch.points = AlignedPoints(pcd, transform)

\* C19: a scan enters vdb_volume_.Integrate once, right after its lookup
\* gave a pose and never otherwise; the points it brings were aligned before
\* they were range filtered when both switches are on; and the origin is the
\* translation of the looked-up pose, with apply_pose_ on or off.
C19_IntegrateStepOrder ==
    /\ \A i \in 1..Len(ScanLog) :
          /\ ScanLog[i].ev = "integrate_begin" =>
                i > 1 /\ ScanLog[i - 1] = Event("scan", ScanLog[i].id, "lookup_pose")
          /\ ScanLog[i].ev = "lookup_pose" =>
                i < Len(ScanLog) /\
                ScanLog[i + 1] = Event("scan", ScanLog[i].id, "integrate_begin")
          /\ ScanLog[i].ev = "lookup_none" =>
                ~\E j \in 1..Len(ScanLog) :
                     ScanLog[j] = Event("scan", ScanLog[i].id, "integrate_begin")
    /\ \A id \in 1..MaxTriggers :
          Cardinality({i \in 1..Len(ScanLog) :
                          ScanLog[i] = Event("scan", id, "integrate_begin")}) <= 1
    /\ \A t \in Threads :
          pc[t] = "integrating" =>
              \E transform \in Poses :
                  BatchInOrder(run[t].batch, run[t].cb.cloud, transform)
    /\ \A k \in 1..Len(vdb_volume_.tsdf) :
          \E transform \in Poses, pcd \in Clouds :
              BatchInOrder(vdb_volume_.tsdf[k], pcd, transform)

\* Both switches on: a scan is inside vdb_volume_.Integrate with the two
\* aligned points that are in range (filtering first would keep one) and the
\* pose's translation as origin.
C19_Witness ==
    /\ apply_pose_ /\ preprocess_
    /\ \E t \in Threads :
          /\ pc[t] = "integrating"
          /\ run[t].batch.points = << <<2, 0, 0>>, <<-1, 0, 0>> >>
          /\ run[t].batch.origin = <<4, 0, 0>>
          /\ BatchInOrder(run[t].batch, run[t].cb.cloud,
                          [valid |-> TRUE, yaw180 |-> TRUE, translation |-> <<4, 0, 0>>])

========================================================================
